---- MODULE Spec2Model ----
(***************************************************************************)
(* Model of the real-time status engine of FireSafetyStationApp            *)
(* (src/app.js): the status classifier, the station aggregator, the        *)
(* refresh pass and the timers that drive it.                              *)
(*                                                                         *)
(* Time is counted in hours since the Unix epoch, so the millisecond        *)
(* constants of the source appear divided by 3600000.                      *)
(***************************************************************************)
EXTENDS Integers, Sequences, FiniteSets, TLC

(***************************************************************************)
(* Bounds of the model                                                     *)
(***************************************************************************)
MaxStations == 2         \* stations in a loaded data set
MaxAssets == 2           \* assets in a loaded data set (all stations together)
MaxHours == 27           \* hours the clock runs after the earliest start
ProbeSpan == 2           \* classification probes: hours around the boundary
ProbeDays == 35          \* classification probes: days around the boundary
MaxProbeAssets == 4      \* aggregation probes: longest asset list

(***************************************************************************)
(* Program constants                                                       *)
(***************************************************************************)
OneHour == 1                             \* 3600000 ms, the unit of time
HoursPerDay == 24
OneDay == HoursPerDay * OneHour          \* 1000 * 60 * 60 * 24 ms
WARNING_PERIOD == 15
OVERDUE_THRESHOLD == 30

statusPriority == <<"maintenance_required", "overdue", "inspection_due_soon", "good">>

StatusLabels == {"good", "inspection_due_soon", "overdue", "maintenance_required"}

(***************************************************************************)
(* JavaScript numbers that may be NaN: every comparison with NaN is false. *)
(***************************************************************************)
NaN == [nan |-> TRUE, v |-> 0]
Num(n) == [nan |-> FALSE, v |-> n]

NumGT(a, n) == (~a.nan) /\ a.v > n
NumGE(a, n) == (~a.nan) /\ a.v >= n

NumCeilDiv_floor(a, d) == IF a.nan THEN NaN ELSE Num(a.v \div d)

\* Math.ceil(a / d) for d > 0
NumCeilDiv(a, d) == IF a.nan THEN NaN ELSE Num(-((-a.v) \div d))

NumLT(a, n) == (~a.nan) /\ a.v < n

NumMinus_rev(a, n) == IF a.nan THEN NaN ELSE Num(n - a.v)

NumMinus(a, n) == IF a.nan THEN NaN ELSE Num(a.v - n)

(***************************************************************************)
(* Calendar: days since 1970-01-01 of a proleptic Gregorian date           *)
(***************************************************************************)
DayNumber(y, m, d) ==
    LET yy  == IF m <= 2 THEN y - 1 ELSE y
        era == yy \div 400
        yoe == yy - era * 400
        mp  == IF m > 2 THEN m - 3 ELSE m + 9
        doy == (153 * mp + 2) \div 5 + d - 1
        doe == yoe * 365 + yoe \div 4 - yoe \div 100 + doy
    IN  era * 146097 + doe - 719468

(***************************************************************************)
(* Due-date values.  kind is "null", "undefined", "empty" (the string ''), *)
(* "garbage" (a string no Date constructor parses) or "iso" (YYYY-MM-DD).  *)
(***************************************************************************)
NoDue(k) == [kind |-> k, y |-> 0, m |-> 0, d |-> 0]
IsoDue(y, m, d) == [kind |-> "iso", y |-> y, m |-> m, d |-> d]

\* JavaScript truthiness of asset.nextDue
Falsy(due) == due.kind \in {"null", "undefined", "empty"}

\* new Date(asset.nextDue).getTime(), in hours
DateGetTime(due) ==
    CASE due.kind = "iso"  -> Num(DayNumber(due.y, due.m, due.d) * OneDay)
      [] due.kind = "null" -> Num(0)
      [] OTHER             -> NaN

(***************************************************************************)
(* Status Classifier                                                       *)
(***************************************************************************)
calculateRealTimeStatus_ge(asset, today) ==
    IF Falsy(asset.nextDue) THEN "maintenance_required"
    ELSE LET timeDiff == NumMinus(DateGetTime(asset.nextDue), today)
             daysUntilDue == NumCeilDiv(timeDiff, OneDay)
         IN  IF NumGE(daysUntilDue, WARNING_PERIOD) THEN "good"
             ELSE IF NumGT(daysUntilDue, 0) THEN "inspection_due_soon"
             ELSE IF NumGE(daysUntilDue, -OVERDUE_THRESHOLD) THEN "overdue"
             ELSE "maintenance_required"

calculateRealTimeStatus_lt(asset, today) ==
    IF Falsy(asset.nextDue) THEN "maintenance_required"
    ELSE LET timeDiff == NumMinus(DateGetTime(asset.nextDue), today)
             daysUntilDue == NumCeilDiv(timeDiff, OneDay)
         IN  IF NumGT(daysUntilDue, WARNING_PERIOD) THEN "good"
             ELSE IF NumGT(daysUntilDue, 0) THEN "inspection_due_soon"
             ELSE IF NumLT(daysUntilDue, -OVERDUE_THRESHOLD) THEN "maintenance_required"
             ELSE "overdue"

\* the const daysUntilDue of calculateRealTimeStatus
daysUntilDueOf(due, today) == NumCeilDiv(NumMinus(DateGetTime(due), today), OneDay)

calculateRealTimeStatus_cached(asset, today) ==
    IF Falsy(asset.nextDue) THEN "maintenance_required"
    ELSE IF asset.status = "overdue" THEN "overdue"
    ELSE LET timeDiff == NumMinus(DateGetTime(asset.nextDue), today)
             daysUntilDue == NumCeilDiv(timeDiff, OneDay)
         IN  IF NumGT(daysUntilDue, WARNING_PERIOD) THEN "good"
             ELSE IF NumGT(daysUntilDue, 0) THEN "inspection_due_soon"
             ELSE IF NumGE(daysUntilDue, -OVERDUE_THRESHOLD) THEN "overdue"
             ELSE "maintenance_required"

calculateRealTimeStatus(asset, today) ==
    IF Falsy(asset.nextDue) THEN "maintenance_required"
    ELSE LET timeDiff == NumMinus(DateGetTime(asset.nextDue), today)
             daysUntilDue == NumCeilDiv(timeDiff, OneDay)
         IN  IF NumGT(daysUntilDue, WARNING_PERIOD) THEN "good"
             ELSE IF NumGT(daysUntilDue, 0) THEN "inspection_due_soon"
             ELSE IF NumGE(daysUntilDue, -OVERDUE_THRESHOLD) THEN "overdue"
             ELSE "maintenance_required"

(***************************************************************************)
(* Aggregator                                                              *)
(***************************************************************************)
\* Array.prototype.indexOf on statusPriority (0-based, -1 when absent)
indexOf(seq, x) ==
    IF \E i \in 1..Len(seq) : seq[i] = x
    THEN (CHOOSE i \in 1..Len(seq) : seq[i] = x /\ \A j \in 1..(i - 1) : seq[j] # x) - 1
    ELSE -1

reduceWorst_last(worstStatus, assetStatus) == assetStatus

reduceWorst_best(worstStatus, assetStatus) ==
    LET currentPriority == indexOf(statusPriority, worstStatus)
        assetPriority == indexOf(statusPriority, assetStatus)
    IN  IF assetPriority > currentPriority THEN assetStatus ELSE worstStatus

\* the callback of station.assets.reduce, given the asset's computed status
reduceWorst(worstStatus, assetStatus) ==
    LET currentPriority == indexOf(statusPriority, worstStatus)
        assetPriority == indexOf(statusPriority, assetStatus)
    IN  IF assetPriority < currentPriority THEN assetStatus ELSE worstStatus

RECURSIVE reduceAssets(_, _, _, _)
reduceAssets(assets, i, acc, today) ==
    IF i > Len(assets) THEN acc
    ELSE reduceAssets(assets, i + 1,
                      reduceWorst(acc, calculateRealTimeStatus(assets[i], today)),
                      today)

getStationStatus_noguard(station, today) ==
    reduceAssets(station.assets, 1, "good", today)

getStationStatus(station, today) ==
    IF (~station.hasAssets) \/ Len(station.assets) = 0
    THEN "maintenance_required"
    ELSE reduceAssets(station.assets, 1, "good", today)

(***************************************************************************)
(* Date Parser                                                             *)
(***************************************************************************)
\* the calendar date of a day number (inverse of DayNumber)
CivilFromDays(z) ==
    LET zz  == z + 719468
        era == zz \div 146097
        doe == zz - era * 146097
        yoe == (doe - doe \div 1460 + doe \div 36524 - doe \div 146096) \div 365
        doy == doe - (365 * yoe + yoe \div 4 - yoe \div 100)
        mp  == (5 * doy + 2) \div 153
        d   == doy - (153 * mp + 2) \div 5 + 1
        m   == IF mp < 10 THEN mp + 3 ELSE mp - 9
        y   == yoe + era * 400 + (IF m <= 2 THEN 1 ELSE 0)
    IN  [y |-> y, m |-> m, d |-> d]

\* new Date(year, monthIndex, day).getTime() in a zone tz hours east of UTC:
\* years 0..99 mean 1900..1999, month and day overflow into the next units
JsLocalDate(year, monthIndex, day, tz) ==
    LET yr == IF year >= 0 /\ year <= 99 THEN 1900 + year ELSE year
        y2 == yr + monthIndex \div 12
        m2 == monthIndex % 12
    IN  (DayNumber(y2, m2 + 1, 1) + day - 1) * OneDay - tz

\* the three capture groups of the first pattern that matches a date string
\* written as "mdy" (MM/DD/YYYY), "iso" (YYYY-MM-DD) or "dmy" (DD.MM.YYYY)
matchGroups(dateString) ==
    CASE dateString.kind = "mdy" -> <<dateString.m, dateString.d, dateString.y>>
      [] dateString.kind = "iso" -> <<dateString.y, dateString.m, dateString.d>>
      [] dateString.kind = "dmy" -> <<dateString.d, dateString.m, dateString.y>>

\* the body of the loop of parseDate for the pattern that matches
parseMatch(dateString, tz) ==
    LET match == matchGroups(dateString)
        \* match[3] is a non-empty string, so match[3] || match[1] is match[3];
        \* match[1] === year compares the texts of the first and the third
        \* group, one of which has four digits and the other at most two
        year  == match[3]
        sameText == FALSE
        month == IF sameText THEN match[2] ELSE match[1]
        day   == IF sameText THEN match[3] ELSE match[2]
        c == CivilFromDays(JsLocalDate(year, month - 1, day, tz) \div OneDay)
    IN  IsoDue(c.y, c.m, c.d)

parseDate_strict(dateString, tz) ==
    IF Falsy(dateString) THEN NoDue("null")
    ELSE IF dateString.kind \in {"mdy", "iso", "dmy"} THEN parseMatch(dateString, tz)
    ELSE NoDue("null")

parseDate(dateString, tz) ==
    IF Falsy(dateString) THEN NoDue("null")
    ELSE IF dateString.kind \in {"mdy", "iso", "dmy"} THEN parseMatch(dateString, tz)
    ELSE dateString

(***************************************************************************)
(* Data Ingestion                                                          *)
(***************************************************************************)
UnknownBuilding == <<"Unknown Building", 0>>

\* this.buildings.find(b => b.id === station.building)
findBuilding(buildings, id) ==
    IF \E i \in 1..Len(buildings) : buildings[i].id = id
    THEN buildings[CHOOSE i \in 1..Len(buildings) :
                      buildings[i].id = id /\ \A j \in 1..(i - 1) : buildings[j].id # id].name
    ELSE UnknownBuilding

processAsset_keep(asset, today) ==
    [assetId |-> asset.assetId, nextDue |-> asset.nextDue,
     status |-> asset.status, originalStatus |-> asset.status]

processAsset(asset, today) ==
    LET a1 == [assetId |-> asset.assetId, nextDue |-> asset.nextDue,
               status |-> asset.status, originalStatus |-> asset.status]
    IN  [a1 EXCEPT !.status = calculateRealTimeStatus(a1, today)]

processStation(station, buildings, today) ==
    LET assets == [i \in 1..Len(station.assets) |-> processAsset(station.assets[i], today)]
        st == [station EXCEPT !.assets = assets]
    IN  [stationId |-> station.stationId, building |-> station.building,
         hasAssets |-> TRUE, assets |-> assets,
         buildingName |-> findBuilding(buildings, station.building),
         status |-> getStationStatus(st, today)]

processLoadedData_lenient(app, data, today) ==
    [threw |-> FALSE, buildings |-> data.buildings,
     stations |-> [i \in 1..Len(data.stations) |->
                      [processStation(data.stations[i], data.buildings, today)
                          EXCEPT !.hasAssets = data.stations[i].hasAssets]]]

\* app is [buildings, stations]; the result adds threw, the TypeError of
\* station.assets.forEach on a station record without an asset list, raised
\* after this.buildings was assigned and before this.stations is
processLoadedData(app, data, today) ==
    IF \E i \in 1..Len(data.stations) : ~data.stations[i].hasAssets
    THEN [threw |-> TRUE, buildings |-> data.buildings, stations |-> app.stations]
    ELSE [threw |-> FALSE, buildings |-> data.buildings,
          stations |-> [i \in 1..Len(data.stations) |->
                           processStation(data.stations[i], data.buildings, today)]]

\* row.stationId || row.StationID of a row with neither cell filled
NoStationId == -1

\* the rows that pass `if (!stationId) return`, in row order: an empty cell
\* and the number 0 are both falsy
RECURSIVE keptRows(_)
keptRows(rows) ==
    IF rows = <<>> THEN <<>>
    ELSE IF Head(rows).stationId = NoStationId \/ Head(rows).stationId = 0
         THEN keptRows(Tail(rows))
    ELSE <<Head(rows)>> \o keptRows(Tail(rows))

\* the keys of a Map in insertion order
RECURSIVE firstSeen(_, _)
firstSeen(keys, seen) ==
    IF keys = <<>> THEN <<>>
    ELSE IF Head(keys) \in seen THEN firstSeen(Tail(keys), seen)
    ELSE <<Head(keys)>> \o firstSeen(Tail(keys), seen \cup {Head(keys)})

\* a text is a sequence of characters; <<>> is the empty or missing cell
toUpperCase(text) ==
    LET upper == [c \in {"a", "b", "c", "d", "e", "f", "l", "m", "o", "p", "r", "t", "w"} |->
                     CASE c = "a" -> "A" [] c = "b" -> "B" [] c = "c" -> "C"
                       [] c = "d" -> "D" [] c = "e" -> "E" [] c = "f" -> "F"
                       [] c = "l" -> "L" [] c = "m" -> "M" [] c = "o" -> "O"
                       [] c = "p" -> "P" [] c = "r" -> "R" [] c = "t" -> "T"
                       [] c = "w" -> "W"]
    IN  [i \in 1..Len(text) |-> IF text[i] \in DOMAIN upper THEN upper[text[i]] ELSE text[i]]

startsWith(text, prefix) ==
    Len(text) >= Len(prefix) /\ SubSeq(text, 1, Len(prefix)) = prefix

determineISOCategory(type) ==
    IF type = <<>> THEN 1
    ELSE LET typeUpper == toUpperCase(type)
         IN  IF typeUpper = <<"C", "O", "2">> \/ startsWith(typeUpper, <<"C", "O">>) THEN 5
             ELSE IF typeUpper = <<"F", "O", "A", "M">> THEN 1
             ELSE IF typeUpper = <<"P", "O", "W", "D", "E", "R">> THEN 2
             ELSE IF typeUpper = <<"W", "A", "T", "E", "R">> THEN 1
             ELSE 1

\* the asset of one row; isoCategory 0 is an asset without that property
\* (deleted for a hose), a row's isoCategory 0 a cell that is empty or 0
csvAsset(row, tz) ==
    LET assetType == IF row.assetType = "" THEN "extinguisher" ELSE row.assetType
        isoCategory == IF row.isoCategory # 0 THEN row.isoCategory
                       ELSE determineISOCategory(row.type)
    IN  [assetId |-> row.assetId,
         assetType |-> assetType,
         type |-> IF row.type # <<>> THEN row.type ELSE row.Type,
         nextDue |-> parseDate(row.nextDue, tz),
         isoCategory |-> IF assetType = "hose" THEN 0 ELSE isoCategory,
         inspectionStickerID |-> IF row.inspectionStickerID = "" THEN "STK-NOT-ASSIGNED"
                                 ELSE row.inspectionStickerID,
         status |-> IF row.status = "" THEN "unknown" ELSE row.status]

convertCSVToJSON(csvData, tz) ==
    LET rows == keptRows(csvData)
        ids  == firstSeen([i \in 1..Len(rows) |-> rows[i].stationId], {})
        firstRow(id) == rows[CHOOSE i \in 1..Len(rows) :
                               rows[i].stationId = id
                               /\ \A j \in 1..(i - 1) : rows[j].stationId # id]
        rowsOf(id) == SelectSeq(rows, LAMBDA r : r.stationId = id)
        stationOf(id) ==
            [stationId |-> id, building |-> firstRow(id).building, hasAssets |-> TRUE,
             assets |-> [j \in 1..Len(rowsOf(id)) |-> csvAsset(rowsOf(id)[j], tz)]]
        stations == [i \in 1..Len(ids) |-> stationOf(ids[i])]
        bids == firstSeen([i \in 1..Len(stations) |-> stations[i].building], {})
    IN  [buildings |-> [i \in 1..Len(bids) |-> [id |-> bids[i], name |-> <<"Building", bids[i]>>]],
         stations |-> stations]

loadData_nocatch(app, json, csv, today, tz) ==
    LET failed == [threw |-> TRUE, buildings |-> app.buildings, stations |-> app.stations]
        r1 == IF json.ok THEN processLoadedData(app, json.data, today) ELSE failed
        r2 == IF csv.ok
              THEN processLoadedData(r1, convertCSVToJSON(csv.rows, tz), today)
              ELSE [r1 EXCEPT !.threw = TRUE]
    IN  IF ~r1.threw
        THEN [buildings |-> r1.buildings, stations |-> r1.stations,
              source |-> "json", fallbackRead |-> FALSE, raised |-> FALSE]
        ELSE [buildings |-> r2.buildings, stations |-> r2.stations,
              source |-> "csv", fallbackRead |-> TRUE, raised |-> r2.threw]

\* json and csv are what the two sources deliver: [ok, data] and [ok, rows];
\* the result tells where the data came from, whether the fallback was read
\* and whether loadData raised
loadData_mixed(app, json, csv, today, tz) ==
    LET failed == [threw |-> TRUE, buildings |-> app.buildings, stations |-> app.stations]
        r1 == IF json.ok THEN processLoadedData(app, json.data, today) ELSE failed
        r2 == IF csv.ok
              THEN processLoadedData(r1, convertCSVToJSON(csv.rows, tz), today)
              ELSE [r1 EXCEPT !.threw = TRUE]
    IN  IF ~r1.threw
        THEN [buildings |-> r1.buildings, stations |-> r1.stations,
              source |-> "json", fallbackRead |-> FALSE, raised |-> FALSE]
        ELSE IF ~r2.threw
        THEN [buildings |-> r2.buildings, stations |-> r2.stations,
              source |-> "csv", fallbackRead |-> TRUE, raised |-> FALSE]
        ELSE [buildings |-> r2.buildings, stations |-> <<>>,
              source |-> "empty", fallbackRead |-> TRUE, raised |-> FALSE]

loadData(app, json, csv, today, tz) ==
    LET failed == [threw |-> TRUE, buildings |-> app.buildings, stations |-> app.stations]
        r1 == IF json.ok THEN processLoadedData(app, json.data, today) ELSE failed
        r2 == IF csv.ok
              THEN processLoadedData(r1, convertCSVToJSON(csv.rows, tz), today)
              ELSE [r1 EXCEPT !.threw = TRUE]
    IN  IF ~r1.threw
        THEN [buildings |-> r1.buildings, stations |-> r1.stations,
              source |-> "json", fallbackRead |-> FALSE, raised |-> FALSE]
        ELSE IF ~r2.threw
        THEN [buildings |-> r2.buildings, stations |-> r2.stations,
              source |-> "csv", fallbackRead |-> TRUE, raised |-> FALSE]
        ELSE [buildings |-> <<>>, stations |-> <<>>,
              source |-> "empty", fallbackRead |-> TRUE, raised |-> FALSE]

(***************************************************************************)
(* Refresh pass                                                            *)
(***************************************************************************)
refreshAsset_clobber(asset, newStatus, changes) ==
    IF asset.status # newStatus
    THEN [asset |-> [asset EXCEPT !.status = newStatus, !.originalStatus = asset.status],
          changes |-> changes + 1]
    ELSE [asset |-> asset, changes |-> changes]

\* one asset of the inner forEach: [asset, changes]
refreshAsset(asset, newStatus, changes) ==
    IF asset.status # newStatus
    THEN [asset |-> [asset EXCEPT !.status = newStatus], changes |-> changes + 1]
    ELSE [asset |-> asset, changes |-> changes]

\* the inner forEach of refreshAllStatuses: [assets, changes]
RECURSIVE refreshAssets(_, _, _, _)
RECURSIVE nextAsset(_, _, _, _)
refreshAssets(assets, i, changes, today) ==
    IF i > Len(assets) THEN [assets |-> assets, changes |-> changes]
    ELSE nextAsset(assets, i,
                   refreshAsset(assets[i], calculateRealTimeStatus(assets[i], today), changes),
                   today)

nextAsset(assets, i, ac, today) ==
    refreshAssets([assets EXCEPT ![i] = ac.asset], i + 1, ac.changes, today)

\* the station after its assets were refreshed: [station, changes]
withAssets(station, ra) ==
    [station |-> [station EXCEPT !.assets = ra.assets], changes |-> ra.changes]

refreshStationStatus_nocount(sc, newStationStatus) ==
    [station |-> [sc.station EXCEPT !.status = newStationStatus], changes |-> sc.changes]

\* "Update station status": [station, changes]
refreshStationStatus(sc, newStationStatus) ==
    IF sc.station.status # newStationStatus
    THEN [station |-> [sc.station EXCEPT !.status = newStationStatus],
          changes |-> sc.changes + 1]
    ELSE sc

aggregateStation(sc, today) ==
    refreshStationStatus(sc, getStationStatus(sc.station, today))

\* the body of the outer forEach for one station: [station, changes]
refreshStation(station, changes, today) ==
    aggregateStation(withAssets(station, refreshAssets(station.assets, 1, changes, today)),
                     today)

\* the outer forEach of refreshAllStatuses: [stations, changes, threw]; threw is
\* the TypeError of station.assets.forEach on a station without an asset list,
\* which leaves the pass where it was
RECURSIVE refreshStations(_, _, _, _)
RECURSIVE nextStation(_, _, _, _)
refreshStations_partial(stations, i, changes, today) ==
    IF i > Len(stations) \/ i > 1
    THEN [stations |-> stations, changes |-> changes, threw |-> FALSE]
    ELSE nextStation(stations, i, refreshStation(stations[i], changes, today), today)

refreshStations(stations, i, changes, today) ==
    IF i > Len(stations) THEN [stations |-> stations, changes |-> changes, threw |-> FALSE]
    ELSE IF ~stations[i].hasAssets
    THEN [stations |-> stations, changes |-> changes, threw |-> TRUE]
    ELSE nextStation(stations, i, refreshStation(stations[i], changes, today), today)

nextStation(stations, i, sc, today) ==
    refreshStations([stations EXCEPT ![i] = sc.station], i + 1, sc.changes, today)

\* every marker of markersLayer carries one station of this.stations
updateMarkerColors(stations, today) ==
    [i \in 1..Len(stations) |->
        [stations[i] EXCEPT !.status = getStationStatus(stations[i], today)]]

\* the part of updateStats that writes: asset.status of every asset
updateStats(stations, today) ==
    [i \in 1..Len(stations) |->
        [stations[i] EXCEPT !.assets =
            [j \in 1..Len(stations[i].assets) |->
                [stations[i].assets[j] EXCEPT
                    !.status = calculateRealTimeStatus(stations[i].assets[j], today)]]]]

\* the end of refreshAllStatuses, r being what the two loops left
notifyDownstream_always(r, today) ==
    [stations |-> updateStats(updateMarkerColors(r.stations, today), today),
     statusChanges |-> r.changes, notified |-> TRUE, threw |-> r.threw]

notifyDownstream_never(r, today) ==
    [stations |-> r.stations, statusChanges |-> r.changes, notified |-> FALSE,
     threw |-> r.threw]

notifyDownstream(r, today) ==
    IF (~r.threw) /\ r.changes > 0
    THEN [stations |-> updateStats(updateMarkerColors(r.stations, today), today),
          statusChanges |-> r.changes, notified |-> TRUE, threw |-> FALSE]
    ELSE [stations |-> r.stations, statusChanges |-> r.changes, notified |-> FALSE,
          threw |-> r.threw]

\* [stations, statusChanges, notified, threw]: notified tells whether
\* updateMarkerColors, updateStats and populateBuildings were called
refreshAllStatuses(stations, today) ==
    notifyDownstream(refreshStations(stations, 1, 0, today), today)

passRecord(r, today) ==
    [at |-> today, changes |-> r.statusChanges, notified |-> r.notified, threw |-> r.threw]

msUntilMidnight_floor(today, tz) ==
    LET localNow == today + tz
        midnight == ((localNow + OneDay - 1) \div OneDay) * OneDay
    IN  midnight - localNow

\* midnight.getTime() - now.getTime() of setupMidnightRefresh, the local clock
\* being tz hours ahead of UTC
msUntilMidnight(today, tz) ==
    LET localNow == today + tz
        midnight == (localNow \div OneDay + 1) * OneDay
    IN  midnight - localNow

(***************************************************************************)
(* Export                                                                  *)
(***************************************************************************)
\* a cell of convertToCSV: `"${val || ''}"` writes the empty string for a
\* value that is null, undefined or ''
csvCell(due) == IF Falsy(due) THEN NoDue("empty") ELSE due

\* the rows convertToCSV writes for the assets of one station, as the tabular
\* reader gets them back; the header has no originalStatus column, and the
\* cells of the asset fields the session never reads are left blank here
csvRowsOf(station) ==
    [j \in 1..Len(station.assets) |->
        [stationId |-> station.stationId, building |-> station.building,
         assetId |-> station.assets[j].assetId,
         assetType |-> "", type |-> <<>>, Type |-> <<>>, isoCategory |-> 0,
         inspectionStickerID |-> "",
         nextDue |-> csvCell(station.assets[j].nextDue),
         status |-> station.assets[j].status]]

RECURSIVE convertToCSV(_, _)
convertToCSV(stations, i) ==
    IF i > Len(stations) THEN <<>>
    ELSE csvRowsOf(stations[i]) \o convertToCSV(stations, i + 1)

\* an asset as JSON.stringify writes it and JSON.parse reads it back: every
\* own property with its value, a property that is undefined left out
jsonAsset(asset) ==
    [assetId |-> asset.assetId,
     nextDue |-> IF asset.nextDue.kind = "undefined" THEN NoDue("undefined") ELSE asset.nextDue,
     status |-> asset.status, originalStatus |-> asset.originalStatus]

jsonStation(station) ==
    [stationId |-> station.stationId, building |-> station.building,
     hasAssets |-> station.hasAssets,
     assets |-> [j \in 1..Len(station.assets) |-> jsonAsset(station.assets[j])],
     buildingName |-> station.buildingName, status |-> station.status]

\* the content of the file exportData downloads
exportData(format, buildings, stations) ==
    IF format = "csv" THEN convertToCSV(stations, 1)
    ELSE [buildings |-> buildings,
          stations |-> [i \in 1..Len(stations) |-> jsonStation(stations[i])]]

(***************************************************************************)
(* Inputs: the instants and the data sets the model runs on                *)
(***************************************************************************)
\* 2024-03-02T00:00Z: the due dates below cross a band at this instant
BoundaryDay == DayNumber(2024, 3, 2)
BoundaryInstant == BoundaryDay * OneDay
WindowStart == BoundaryInstant - 3 * OneHour
Horizon == WindowStart + MaxHours * OneHour

\* 22:00 local time where tz = 0, local midnight where tz is two hours
StartTimes == {WindowStart + OneHour}
TZOffsets == {0, 2 * OneHour}

\* asset records of the primary source: a due date and the ingested status
RawAssetChoices ==
    { [nextDue |-> NoDue("null"),        status |-> "expired"],
      [nextDue |-> NoDue("garbage"),     status |-> "good"],
      [nextDue |-> IsoDue(2024, 3, 17),  status |-> "good"],
      [nextDue |-> IsoDue(2024, 3, 2),   status |-> "expired"],
      [nextDue |-> IsoDue(2024, 1, 31),  status |-> "overdue"] }

\* sequences of ns asset lists that hold at most total assets together
RECURSIVE AssetListSeqs(_, _, _)
AssetListSeqs(choices, ns, total) ==
    IF ns = 0 THEN {<<>>}
    ELSE UNION { { <<l>> \o rest : l \in [1..k -> choices],
                                   rest \in AssetListSeqs(choices, ns - 1, total - k) }
                 : k \in 0..total }

JsonBuildings == << [id |-> 1, name |-> <<"Main", 1>>] >>

JsonStation(i, l) ==
    [stationId |-> i, building |-> IF i = 1 THEN 1 ELSE 2, hasAssets |-> TRUE,
     assets |-> [j \in 1..Len(l) |->
                    [assetId |-> 10 * i + j, nextDue |-> l[j].nextDue, status |-> l[j].status]]]

JsonData ==
    { [buildings |-> JsonBuildings, stations |-> [i \in 1..Len(ls) |-> JsonStation(i, ls[i])]]
      : ls \in UNION { AssetListSeqs(RawAssetChoices, ns, MaxAssets) : ns \in 0..MaxStations } }

\* a structured file whose second station record has no asset list
JsonBrokenData ==
    { [buildings |-> JsonBuildings,
       stations |-> << JsonStation(1, <<a>>),
                       [stationId |-> 2, building |-> 1, hasAssets |-> FALSE, assets |-> <<>>] >>]
      : a \in RawAssetChoices }

NoData == [buildings |-> <<>>, stations |-> <<>>]

JsonOutcomes ==
    { [ok |-> TRUE, data |-> d] : d \in JsonData \cup JsonBrokenData }
    \cup { [ok |-> FALSE, data |-> NoData] }

\* rows of the tabular source: stationId 0 is a row the grouping skips,
\* status "" a row without a status
CsvRowChoices ==
    { [nextDue |-> [kind |-> "mdy", y |-> 2024, m |-> 3, d |-> 17], status |-> ""],
      [nextDue |-> [kind |-> "iso", y |-> 2024, m |-> 3, d |-> 2],  status |-> "expired"],
      [nextDue |-> NoDue("empty"),                                  status |-> "expired"] }

CsvRowsOf(k) ==
    { [j \in 1..k |-> [stationId |-> ids[j], building |-> 1, assetId |-> 100 + j,
                       assetType |-> "", type |-> <<>>, Type |-> <<>>, isoCategory |-> 0,
                       inspectionStickerID |-> "",
                       nextDue |-> cs[j].nextDue, status |-> cs[j].status]]
      : ids \in [1..k -> 0..MaxStations], cs \in [1..k -> CsvRowChoices] }

CsvOutcomes ==
    { [ok |-> TRUE, rows |-> r] : r \in UNION { CsvRowsOf(k) : k \in 0..MaxAssets } }
    \cup { [ok |-> FALSE, rows |-> <<>>] }

NoApp == [buildings |-> <<>>, stations |-> <<>>]

\* the outcome of the primary source alone decides whether the fallback is read
JsonLoads(json) == json.ok /\ ~processLoadedData(NoApp, json.data, 0).threw

\* a fallback file that is there while the primary source answers
SpareCsv ==
    [ok |-> TRUE,
     rows |-> << [stationId |-> 1, building |-> 1, assetId |-> 101,
                  assetType |-> "", type |-> <<>>, Type |-> <<>>, isoCategory |-> 0,
                  inspectionStickerID |-> "",
                  nextDue |-> [kind |-> "mdy", y |-> 2024, m |-> 3, d |-> 17],
                  status |-> ""] >>]

\* stations.csv is not asked for, or it loads, or it fails
FallbackOutcome(read, csv) ==
    IF ~read THEN "unread" ELSE IF csv.ok THEN "ok" ELSE "failed"

\* stations.json answers, does not answer, or holds a record that cannot be processed
PrimaryOutcome(json) ==
    IF ~json.ok THEN "unreachable" ELSE IF JsonLoads(json) THEN "ok" ELSE "malformed"

(***************************************************************************)
(* State                                                                   *)
(***************************************************************************)
VARIABLES
    now,         \* the wall clock, hours since the epoch (UTC)
    tz,          \* hours the local clock is ahead of UTC
    pc,          \* init(): "constructed", "loaded" (loadData returned), "running",
                 \* "failed" (the catch block of init)
    buildings,   \* this.buildings
    stations,    \* this.stations
    hourly,      \* the setInterval of setupRealTimeStatusUpdates: [armed, due]
    midnight,    \* the setTimeout of setupMidnightRefresh: [armed, due]
    daily,       \* the setInterval armed by the midnight callback: [armed, due]
    lastOp,      \* the handler that ran last; "none" once the clock or a call follows it
    lastPass,    \* the last refresh pass: [at, changes, notified]
    tornDown,    \* the host cleared the timer handles the app retains
    cls,         \* classification probe: [asset, today, status]
    agg,         \* aggregation probe: [station, today, result, permuted]
    fn,          \* a call of a pure helper: [op, arg, result, done]
    run,         \* a refresh pass in progress, one clock read at a time
    load,        \* what loadData met: [primary, fallback, source, raised]
    exp          \* the last export: [kind, at, file, reloaded, done]

appVars == <<now, tz, pc, buildings, stations, hourly, midnight, daily, lastOp, lastPass,
             tornDown, load, exp>>
vars == <<now, tz, pc, buildings, stations, hourly, midnight, daily, lastOp, lastPass,
          tornDown, cls, agg, fn, run, load, exp>>

NoTimer == [armed |-> FALSE, due |-> 0]
NoPass == [at |-> 0, changes |-> 0, notified |-> FALSE, threw |-> FALSE]
NoProbe == [kind |-> "none"]
NoCall == [op |-> "none", arg |-> <<>>, result |-> <<>>, done |-> FALSE]
NoRun == [phase |-> "idle"]
NoLoad == [primary |-> "unread", fallback |-> "unread", source |-> "none", raised |-> FALSE]
NoExport == [kind |-> "none", at |-> 0, file |-> <<>>, reloaded |-> <<>>, done |-> FALSE]

PassOps == {"init", "hourly", "midnight", "daily"}

\* the state the constructor leaves
Constructed ==
    /\ pc = "constructed"
    /\ buildings = <<>>
    /\ stations = <<>>
    /\ hourly = NoTimer
    /\ midnight = NoTimer
    /\ daily = NoTimer
    /\ lastOp = "none"
    /\ lastPass = NoPass
    /\ tornDown = FALSE
    /\ load = NoLoad
    /\ exp = NoExport

Init ==
    /\ now \in StartTimes
    /\ tz \in TZOffsets
    /\ Constructed
    /\ cls = NoProbe
    /\ agg = NoProbe
    /\ fn = NoCall
    /\ run = NoRun

(***************************************************************************)
(* Handlers                                                                *)
(***************************************************************************)
\* await this.loadData() in init()
LoadData ==
    /\ pc = "constructed"
    /\ \E json \in JsonOutcomes :
         \E csv \in (IF json.ok THEN {[ok |-> FALSE, rows |-> <<>>], SpareCsv}
                     ELSE CsvOutcomes) :
            \E r \in {loadData([buildings |-> buildings, stations |-> stations],
                              json, csv, now, tz)} :
                /\ buildings' = r.buildings
                /\ stations' = r.stations
                /\ load' = [primary |-> PrimaryOutcome(json),
                            fallback |-> FallbackOutcome(r.fallbackRead, csv),
                            source |-> r.source, raised |-> r.raised]
                /\ pc' = (IF r.raised THEN "failed" ELSE "loaded")
    /\ lastOp' = "load"
    /\ UNCHANGED <<now, tz, hourly, midnight, daily, lastPass, tornDown, cls, agg, fn, run, exp>>

InitContinue_nopass ==
    /\ pc = "loaded"
    /\ hourly' = [armed |-> TRUE, due |-> now + OneHour]
    /\ midnight' = [armed |-> TRUE, due |-> now + msUntilMidnight(now, tz)]
    /\ pc' = "running"
    /\ lastOp' = "init"
    /\ UNCHANGED <<now, tz, buildings, stations, lastPass, daily, tornDown, cls, agg, fn, run, load, exp>>

\* the rest of init(): initMap, setupRealTimeStatusUpdates (a pass, the hourly
\* interval, setupMidnightRefresh), updateStats, populateBuildings; a pass
\* that throws takes init() to its catch block before any timer is armed
InitContinue ==
    /\ pc = "loaded"
    /\ \E r \in {refreshAllStatuses(stations, now)} :
          /\ stations' = (IF r.threw THEN r.stations ELSE updateStats(r.stations, now))
          /\ lastPass' = passRecord(r, now)
          /\ hourly' = (IF r.threw THEN NoTimer ELSE [armed |-> TRUE, due |-> now + OneHour])
          /\ midnight' = (IF r.threw THEN NoTimer
                          ELSE [armed |-> TRUE, due |-> now + msUntilMidnight(now, tz)])
          /\ pc' = (IF r.threw THEN "failed" ELSE "running")
    /\ lastOp' = "init"
    /\ UNCHANGED <<now, tz, buildings, daily, tornDown, cls, agg, fn, run, load, exp>>

setIntervalRearm_once(timer, period) == [armed |-> FALSE, due |-> 0]

setIntervalRearm_slow(timer, period) == [armed |-> TRUE, due |-> timer.due + 2 * period]

\* a setInterval timer after one firing
setIntervalRearm(timer, period) == [armed |-> TRUE, due |-> timer.due + period]

Due(timer) == timer.armed /\ timer.due <= now

\* the callback of the hourly setInterval
HourlyFire ==
    /\ Due(hourly)
    /\ \E r \in {refreshAllStatuses(stations, now)} :
          /\ stations' = r.stations
          /\ lastPass' = passRecord(r, now)
    /\ hourly' = setIntervalRearm(hourly, OneHour)
    /\ lastOp' = "hourly"
    /\ UNCHANGED <<now, tz, pc, buildings, midnight, daily, tornDown, cls, agg, fn, run, load, exp>>

\* the callback of the setTimeout of setupMidnightRefresh
MidnightFire ==
    /\ Due(midnight)
    /\ \E r \in {refreshAllStatuses(stations, now)} :
          /\ stations' = r.stations
          /\ lastPass' = passRecord(r, now)
    /\ midnight' = NoTimer
    /\ daily' = [armed |-> TRUE, due |-> now + OneDay]
    /\ lastOp' = "midnight"
    /\ UNCHANGED <<now, tz, pc, buildings, hourly, tornDown, cls, agg, fn, run, load, exp>>

\* the callback of the daily setInterval
DailyFire ==
    /\ Due(daily)
    /\ \E r \in {refreshAllStatuses(stations, now)} :
          /\ stations' = r.stations
          /\ lastPass' = passRecord(r, now)
    /\ daily' = setIntervalRearm(daily, OneDay)
    /\ lastOp' = "daily"
    /\ UNCHANGED <<now, tz, pc, buildings, hourly, midnight, tornDown, cls, agg, fn, run, load, exp>>

\* the public method updateStats, called on its own
UpdateStats ==
    /\ pc = "running"
    /\ stations' = updateStats(stations, now)
    /\ lastOp' = "none"
    /\ UNCHANGED <<now, tz, pc, buildings, hourly, midnight, daily, lastPass, tornDown,
                   cls, agg, fn, run, load, exp>>

\* the public method updateMarkerColors, called on its own
UpdateMarkerColors ==
    /\ pc = "running"
    /\ stations' = updateMarkerColors(stations, now)
    /\ lastOp' = "none"
    /\ UNCHANGED <<now, tz, pc, buildings, hourly, midnight, daily, lastPass, tornDown,
                   cls, agg, fn, run, load, exp>>

\* one hour passes; a timer that is due fires before the clock moves on
Tick ==
    /\ pc = "running"
    /\ now < Horizon
    /\ ~Due(hourly) /\ ~Due(midnight) /\ ~Due(daily)
    /\ now' = now + OneHour
    /\ lastOp' = "none"
    /\ UNCHANGED <<tz, pc, buildings, stations, hourly, midnight, daily, lastPass, tornDown,
                   cls, agg, fn, run, load, exp>>

Next ==
    \/ LoadData
    \/ InitContinue
    \/ HourlyFire
    \/ MidnightFire
    \/ DailyFire
    \/ Tick

\* the program as its own handlers drive it
Spec == Init /\ [][Next]_vars

NextCalls ==
    \/ Next
    \/ UpdateStats
    \/ UpdateMarkerColors

\* what the three callbacks do to their own timers
HourlyRuns == Due(hourly) /\ hourly' = setIntervalRearm(hourly, OneHour)
MidnightRuns == Due(midnight) /\ midnight' = NoTimer
DailyRuns == Due(daily) /\ daily' = setIntervalRearm(daily, OneDay)

\* the event loop runs the callback of a timer that is due, and the clock goes on
Fairness ==
    /\ WF_hourly(HourlyRuns)
    /\ WF_midnight(MidnightRuns)
    /\ WF_daily(DailyRuns)
    /\ WF_vars(Tick)

SpecFair == Spec /\ Fairness

\* the program with its public methods also called from outside, at any instant
SpecCalls == Init /\ [][NextCalls]_vars

(***************************************************************************)
(* Teardown.  The source has no teardown method; of the three timers only  *)
(* the hourly interval leaves a handle behind (this.statusRefreshInterval),*)
(* so a host that tears the scheduler down can clear that one alone.       *)
(***************************************************************************)
Teardown ==
    /\ pc = "running"
    /\ ~tornDown
    /\ hourly' = NoTimer
    /\ tornDown' = TRUE
    /\ lastOp' = "teardown"
    /\ UNCHANGED <<now, tz, pc, buildings, stations, midnight, daily, lastPass, cls, agg, fn, run,
                   load, exp>>

NextTeardown ==
    \/ Next
    \/ Teardown

SpecTeardown == Init /\ [][NextTeardown]_vars

(***************************************************************************)
(* Export, and a new session that loads the exported file                  *)
(***************************************************************************)
ExportFormats == {"csv", "json"}

\* the export control: exportData('csv') or exportData('json')
ExportData ==
    /\ pc = "running"
    /\ exp.kind = "none"
    /\ \E format \in ExportFormats :
          exp' = [kind |-> format, at |-> now,
                  file |-> exportData(format, buildings, stations),
                  reloaded |-> <<>>, done |-> FALSE]
    /\ lastOp' = "export"
    /\ UNCHANGED <<now, tz, pc, buildings, stations, hourly, midnight, daily, lastPass,
                   tornDown, cls, agg, fn, run, load>>

\* the exported file served as stations.json or as stations.csv
fileAsJson(e) ==
    IF e.kind = "json" THEN [ok |-> TRUE, data |-> e.file] ELSE [ok |-> FALSE, data |-> NoData]

fileAsCsv(e) ==
    IF e.kind = "csv" THEN [ok |-> TRUE, rows |-> e.file] ELSE [ok |-> FALSE, rows |-> <<>>]

\* loadData of a new session on the exported file
Reingest ==
    /\ exp.kind # "none"
    /\ ~exp.done
    /\ exp' = [exp EXCEPT
                 !.reloaded = loadData(NoApp, fileAsJson(exp), fileAsCsv(exp), now, tz).stations,
                 !.done = TRUE]
    /\ UNCHANGED <<now, tz, pc, buildings, stations, hourly, midnight, daily, lastOp, lastPass,
                   tornDown, cls, agg, fn, run, load>>

\* the session up to an export, the export and the reload of the file
NextExport ==
    \/ (exp.kind = "none" /\ Next)
    \/ ExportData
    \/ Reingest

SpecExport == Init /\ [][NextExport]_vars

(***************************************************************************)
(* Classification probes: calculateRealTimeStatus applied to one asset     *)
(***************************************************************************)
ProbeTimes == { BoundaryInstant + k * OneHour : k \in (-ProbeSpan)..ProbeSpan }

ProbeDues ==
    { NoDue(k) : k \in {"null", "undefined", "empty", "garbage"} }
    \cup { LET c == CivilFromDays(BoundaryDay + k) IN IsoDue(c.y, c.m, c.d)
           : k \in (-ProbeDays)..ProbeDays }

ProbeAssets ==
    { [assetId |-> 1, nextDue |-> due, status |-> st, originalStatus |-> orig]
      : due \in ProbeDues, st \in {"good", "overdue"}, orig \in {"good", "expired"} }

InitClassify ==
    /\ now = WindowStart
    /\ tz = 0
    /\ Constructed
    /\ cls \in { [asset |-> a, today |-> t, status |-> "pending"]
                 : a \in ProbeAssets, t \in ProbeTimes }
    /\ agg = NoProbe
    /\ fn = NoCall
    /\ run = NoRun

ClassifyCall ==
    /\ cls.status = "pending"
    /\ cls' = [cls EXCEPT !.status = calculateRealTimeStatus(cls.asset, cls.today)]
    /\ UNCHANGED <<appVars, agg, fn, run>>

SpecClassify == InitClassify /\ [][ClassifyCall]_vars

(***************************************************************************)
(* Date parser probes: parseDate applied to one cell of the tabular source *)
(***************************************************************************)
ParseDays == { CivilFromDays(BoundaryDay + k) : k \in (-ProbeDays)..ProbeDays }

ParseInputs ==
    { NoDue(k) : k \in {"null", "undefined", "empty", "garbage"} }
    \cup { [kind |-> f, y |-> c.y, m |-> c.m, d |-> c.d]
           : f \in {"mdy", "iso", "dmy"}, c \in ParseDays }

InitParse ==
    /\ now = WindowStart
    /\ tz \in TZOffsets
    /\ Constructed
    /\ cls = NoProbe
    /\ agg = NoProbe
    /\ run = NoRun
    /\ fn \in { [op |-> "parseDate", arg |-> s, result |-> <<>>, done |-> FALSE]
                : s \in ParseInputs }

ParseCall ==
    /\ fn.op = "parseDate"
    /\ ~fn.done
    /\ fn' = [fn EXCEPT !.result = parseDate(fn.arg, tz), !.done = TRUE]
    /\ UNCHANGED <<appVars, cls, agg, run>>

SpecParse == InitParse /\ [][ParseCall]_vars

(***************************************************************************)
(* The session read by read.  A pass is a run of steps, one for each       *)
(* `new Date()` of calculateRealTimeStatus, and the clock may move on      *)
(* between two of them.  run holds where the pass is: the phase (the two   *)
(* loops of refreshAllStatuses, then updateMarkerColors, then updateStats),*)
(* the station i and asset j it is at, statusChanges, the accumulator of   *)
(* the reduce of getStationStatus, the instant the pass began and the      *)
(* phase in which the clock last crossed the boundary.                     *)
(***************************************************************************)
\* the clock is followed up to the boundary instant, the one the window
\* holds: a handler takes far less than the day that lies between two of them
ReadsHorizon == BoundaryInstant

ReadsBegun(from, phase) ==
    [phase |-> phase, from |-> from, i |-> 1, j |-> 1, changes |-> 0, acc |-> "good",
     at |-> now, crossed |-> "none"]

AtStation == run.i <= Len(stations)

AtAsset == AtStation /\ run.j <= Len(stations[run.i].assets)

passNotifies_never(statusChanges) == FALSE

\* if (statusChanges > 0)
passNotifies(statusChanges) == statusChanges > 0

\* the primary source holds assets whose status changes at the boundary,
\* and assets without a due date
ReadsAssetChoices ==
    { c \in RawAssetChoices :
        c.nextDue \in {IsoDue(2024, 3, 17), IsoDue(2024, 3, 2), NoDue("null")} }

ReadsJson ==
    { [ok |-> TRUE,
       data |-> [buildings |-> JsonBuildings,
                 stations |-> [i \in 1..Len(ls) |-> JsonStation(i, ls[i])]]]
      : ls \in UNION { AssetListSeqs(ReadsAssetChoices, ns, MaxAssets)
                       : ns \in 0..MaxStations } }

\* loadData with stations.json there and stations.csv not
ReadsLoad ==
    /\ pc = "constructed"
    /\ \E json \in ReadsJson :
         \E csv \in {[ok |-> FALSE, rows |-> <<>>]} :
            \E r \in {loadData([buildings |-> buildings, stations |-> stations],
                              json, csv, now, tz)} :
                /\ buildings' = r.buildings
                /\ stations' = r.stations
                /\ load' = [primary |-> PrimaryOutcome(json),
                            fallback |-> FallbackOutcome(r.fallbackRead, csv),
                            source |-> r.source, raised |-> r.raised]
                /\ pc' = (IF r.raised THEN "failed" ELSE "loaded")
    /\ lastOp' = "load"
    /\ UNCHANGED <<now, tz, hourly, midnight, daily, lastPass, tornDown, cls, agg, fn, run, exp>>

\* init() after loadData: setupRealTimeStatusUpdates begins with a pass
ReadsBeginInit ==
    /\ pc = "loaded"
    /\ run = NoRun
    /\ run' = ReadsBegun("init", "assets")
    /\ pc' = "starting"
    /\ lastOp' = "none"
    /\ UNCHANGED <<now, tz, buildings, stations, hourly, midnight, daily, lastPass, tornDown,
                   cls, agg, fn, load, exp>>

ReadsBeginHourly ==
    /\ pc = "running"
    /\ run = NoRun
    /\ Due(hourly)
    /\ run' = ReadsBegun("hourly", "assets")
    /\ hourly' = setIntervalRearm(hourly, OneHour)
    /\ lastOp' = "none"
    /\ UNCHANGED <<now, tz, pc, buildings, stations, midnight, daily, lastPass, tornDown,
                   cls, agg, fn, load, exp>>

ReadsBeginMidnight ==
    /\ pc = "running"
    /\ run = NoRun
    /\ Due(midnight)
    /\ run' = ReadsBegun("midnight", "assets")
    /\ midnight' = NoTimer
    /\ lastOp' = "none"
    /\ UNCHANGED <<now, tz, pc, buildings, stations, hourly, daily, lastPass, tornDown,
                   cls, agg, fn, load, exp>>

ReadsFrame == UNCHANGED <<now, tz, pc, buildings, hourly, midnight, daily, lastPass, tornDown,
                          cls, agg, fn, load, exp>>

\* the inner forEach of refreshAllStatuses, one asset
ReadAsset ==
    /\ run.phase = "assets"
    /\ AtAsset
    /\ LET asset == stations[run.i].assets[run.j]
           ac == refreshAsset(asset, calculateRealTimeStatus(asset, now), run.changes)
       IN  /\ stations' = [stations EXCEPT ![run.i].assets[run.j] = ac.asset]
           /\ run' = [run EXCEPT !.j = run.j + 1, !.changes = ac.changes]
    /\ lastOp' = "read"
    /\ ReadsFrame

\* the inner forEach is through: getStationStatus begins
AssetsDone ==
    /\ run.phase = "assets"
    /\ AtStation /\ ~AtAsset
    /\ run' = [run EXCEPT !.phase = "reduce", !.j = 1, !.acc = "good"]
    /\ lastOp' = "none"
    /\ UNCHANGED stations
    /\ ReadsFrame

\* the reduce of getStationStatus, one asset
ReadReduce ==
    /\ run.phase \in {"reduce", "markers"}
    /\ AtAsset
    /\ run' = [run EXCEPT !.j = run.j + 1,
                          !.acc = reduceWorst(run.acc,
                                      calculateRealTimeStatus(stations[run.i].assets[run.j], now))]
    /\ lastOp' = "read"
    /\ UNCHANGED stations
    /\ ReadsFrame

\* what getStationStatus returns once its reduce is through
ReducedStatus ==
    IF Len(stations[run.i].assets) = 0 THEN "maintenance_required" ELSE run.acc

\* "Update station status" of refreshAllStatuses, then the next station
ReduceDone ==
    /\ run.phase = "reduce"
    /\ AtStation /\ ~AtAsset
    /\ LET sc == refreshStationStatus([station |-> stations[run.i], changes |-> run.changes],
                                      ReducedStatus)
       IN  /\ stations' = [stations EXCEPT ![run.i] = sc.station]
           /\ run' = [run EXCEPT !.phase = "assets", !.i = run.i + 1, !.j = 1,
                                 !.changes = sc.changes]
    /\ lastOp' = "none"
    /\ ReadsFrame

\* the outer forEach is through
LoopDone ==
    /\ run.phase = "assets"
    /\ ~AtStation
    /\ run' = (IF passNotifies(run.changes)
               THEN [run EXCEPT !.phase = "markers", !.i = 1, !.j = 1, !.acc = "good"]
               ELSE [run EXCEPT !.phase = "end"])
    /\ lastOp' = "none"
    /\ UNCHANGED stations
    /\ ReadsFrame

\* updateMarkerColors: station.status = newStatus, then the next marker
MarkerDone ==
    /\ run.phase = "markers"
    /\ AtStation /\ ~AtAsset
    /\ stations' = [stations EXCEPT ![run.i].status = ReducedStatus]
    /\ run' = [run EXCEPT !.i = run.i + 1, !.j = 1, !.acc = "good"]
    /\ lastOp' = "none"
    /\ ReadsFrame

\* updateMarkerColors is through: updateStats begins
MarkersDone ==
    /\ run.phase = "markers"
    /\ ~AtStation
    /\ run' = [run EXCEPT !.phase = "stats", !.i = 1, !.j = 1]
    /\ lastOp' = "none"
    /\ UNCHANGED stations
    /\ ReadsFrame

\* updateStats, one asset
ReadStats ==
    /\ run.phase = "stats"
    /\ AtAsset
    /\ stations' = [stations EXCEPT ![run.i].assets[run.j].status =
                       calculateRealTimeStatus(stations[run.i].assets[run.j], now)]
    /\ run' = [run EXCEPT !.j = run.j + 1]
    /\ lastOp' = "read"
    /\ ReadsFrame

StatsNext ==
    /\ run.phase = "stats"
    /\ AtStation /\ ~AtAsset
    /\ run' = [run EXCEPT !.i = run.i + 1, !.j = 1]
    /\ lastOp' = "none"
    /\ UNCHANGED stations
    /\ ReadsFrame

\* updateStats is through: the pass ends (populateBuildings writes nothing),
\* or init() does, when this was its own call of updateStats
StatsDone ==
    /\ run.phase = "stats"
    /\ ~AtStation
    /\ run' = (IF run.from = "init42" THEN NoRun ELSE [run EXCEPT !.phase = "end"])
    /\ pc' = (IF run.from = "init42" THEN "running" ELSE pc)
    /\ lastOp' = "none"
    /\ UNCHANGED <<now, tz, buildings, stations, hourly, midnight, daily, lastPass, tornDown,
                   cls, agg, fn, load, exp>>

\* refreshAllStatuses returns to its caller: setupRealTimeStatusUpdates arms
\* the two timers and init() goes on to updateStats; the midnight callback
\* arms the daily interval; the hourly callback is through
PassEnd ==
    /\ run.phase = "end"
    /\ lastPass' = [at |-> run.at, changes |-> run.changes,
                    notified |-> passNotifies(run.changes), threw |-> FALSE,
                    crossed |-> run.crossed]
    /\ lastOp' = run.from
    /\ hourly' = (IF run.from = "init" THEN [armed |-> TRUE, due |-> now + OneHour] ELSE hourly)
    /\ midnight' = (IF run.from = "init"
                    THEN [armed |-> TRUE, due |-> now + msUntilMidnight(now, tz)]
                    ELSE midnight)
    /\ daily' = (IF run.from = "midnight" THEN [armed |-> TRUE, due |-> now + OneDay] ELSE daily)
    /\ run' = (IF run.from = "init" THEN ReadsBegun("init42", "stats") ELSE NoRun)
    /\ UNCHANGED <<now, tz, pc, buildings, stations, tornDown, cls, agg, fn, load, exp>>

\* the clock moves on while a handler is at work, or between loadData and
\* the first pass
ClockDrift ==
    /\ now < ReadsHorizon
    /\ run # NoRun \/ pc = "loaded"
    /\ now' = now + OneHour
    /\ run' = (IF run # NoRun /\ now < BoundaryInstant /\ now + OneHour >= BoundaryInstant
               THEN [run EXCEPT !.crossed = run.phase] ELSE run)
    /\ lastOp' = "none"
    /\ UNCHANGED <<tz, pc, buildings, stations, hourly, midnight, daily, lastPass, tornDown,
                   cls, agg, fn, load, exp>>

\* one hour passes with no handler at work and no timer due
ReadsTick ==
    /\ pc = "running"
    /\ run = NoRun
    /\ now < ReadsHorizon
    /\ ~Due(hourly) /\ ~Due(midnight)
    /\ now' = now + OneHour
    /\ lastOp' = "none"
    /\ UNCHANGED <<tz, pc, buildings, stations, hourly, midnight, daily, lastPass, tornDown,
                   cls, agg, fn, run, load, exp>>

NextReads ==
    \/ ReadsLoad
    \/ ReadsBeginInit
    \/ ReadsBeginHourly
    \/ ReadsBeginMidnight
    \/ ReadAsset
    \/ AssetsDone
    \/ ReadReduce
    \/ ReduceDone
    \/ LoopDone
    \/ MarkerDone
    \/ MarkersDone
    \/ ReadStats
    \/ StatsNext
    \/ StatsDone
    \/ PassEnd
    \/ ClockDrift
    \/ ReadsTick

SpecReads == Init /\ [][NextReads]_vars

(***************************************************************************)
(* Tabular ingestion probes: convertCSVToJSON applied to the rows of one   *)
(* file                                                                    *)
(***************************************************************************)
GroupingCells ==
    { [assetType |-> "",     inspectionStickerID |-> "",      building |-> 1],
      [assetType |-> "hose", inspectionStickerID |-> "STK-7", building |-> 2],
      [assetType |-> "extinguisher", inspectionStickerID |-> "", building |-> 2] }

GroupingRows(k) ==
    { [j \in 1..k |-> [stationId |-> ids[j], building |-> cs[j].building,
                       assetId |-> 100 + j,
                       assetType |-> cs[j].assetType,
                       type |-> <<>>, Type |-> <<>>, isoCategory |-> 0,
                       inspectionStickerID |-> cs[j].inspectionStickerID,
                       nextDue |-> NoDue("empty"), status |-> ""]]
      : ids \in [1..k -> {NoStationId} \cup 0..MaxStations],
        cs \in [1..k -> GroupingCells] }

TypeTexts ==
    { <<>>, <<"C", "O", "2">>, <<"c", "o", "2">>, <<"C", "O", "2", "-", "5">>,
      <<"C", "O">>, <<"C", "o", "m", "b", "i">>,
      <<"P", "O", "W", "D", "E", "R">>, <<"p", "o", "w", "d", "e", "r">>,
      <<"F", "O", "A", "M">>, <<"W", "A", "T", "E", "R">>, <<"A", "B", "C">> }

\* one row whose type stands under the header type or under the header Type
TypeRows ==
    { << [stationId |-> 1, building |-> 1, assetId |-> 101,
          assetType |-> at,
          type |-> IF lower THEN t ELSE <<>>, Type |-> IF lower THEN <<>> ELSE t,
          isoCategory |-> iso, inspectionStickerID |-> "",
          nextDue |-> NoDue("empty"), status |-> ""] >>
      : t \in TypeTexts, lower \in BOOLEAN, iso \in {0, 3}, at \in {"", "hose"} }

InitCsv ==
    /\ now = WindowStart
    /\ tz \in TZOffsets
    /\ Constructed
    /\ cls = NoProbe
    /\ agg = NoProbe
    /\ run = NoRun
    /\ fn \in { [op |-> "convertCSVToJSON", arg |-> rows, result |-> <<>>, done |-> FALSE]
                : rows \in TypeRows \cup UNION { GroupingRows(k) : k \in 0..MaxAssets } }

ConvertCall ==
    /\ fn.op = "convertCSVToJSON"
    /\ ~fn.done
    /\ fn' = [fn EXCEPT !.result = convertCSVToJSON(fn.arg, tz), !.done = TRUE]
    /\ UNCHANGED <<appVars, cls, agg, run>>

SpecCsv == InitCsv /\ [][ConvertCall]_vars

(***************************************************************************)
(* Aggregation probes: getStationStatus applied to one station, whose      *)
(* asset list is then permuted by swaps of neighbours                      *)
(***************************************************************************)
\* at BoundaryInstant: due in 20 days, in 10 days, 5 days ago, 45 days ago
ProbeStationDues ==
    { IsoDue(2024, 3, 22), IsoDue(2024, 3, 12), IsoDue(2024, 2, 26), IsoDue(2024, 1, 17),
      NoDue("garbage") }

ProbeStationAssets ==
    { [assetId |-> 1, nextDue |-> due, status |-> "good", originalStatus |-> "good"]
      : due \in ProbeStationDues }

ProbeStations ==
    { [hasAssets |-> TRUE, assets |-> l]
      : l \in UNION { [1..k -> ProbeStationAssets] : k \in 0..MaxProbeAssets } }
    \cup { [hasAssets |-> FALSE, assets |-> <<>>] }

InitAggregate ==
    /\ now = WindowStart
    /\ tz = 0
    /\ Constructed
    /\ fn = NoCall
    /\ run = NoRun
    /\ cls = NoProbe
    /\ agg \in { [station |-> s, today |-> t, result |-> "pending", permuted |-> FALSE]
                 : s \in ProbeStations, t \in {BoundaryInstant - OneHour, BoundaryInstant} }

AggregateCall ==
    /\ agg.result = "pending"
    /\ agg' = [agg EXCEPT !.result = getStationStatus(agg.station, agg.today)]
    /\ UNCHANGED <<appVars, cls, fn, run>>

AggregatePermute ==
    /\ agg.result # "pending"
    /\ \E i \in 1..(Len(agg.station.assets) - 1) :
          agg' = [agg EXCEPT !.station.assets[i] = agg.station.assets[i + 1],
                             !.station.assets[i + 1] = agg.station.assets[i],
                             !.permuted = TRUE]
    /\ UNCHANGED <<appVars, cls, fn, run>>

NextAggregate ==
    \/ AggregateCall
    \/ AggregatePermute

SpecAggregate == InitAggregate /\ [][NextAggregate]_vars

(***************************************************************************)
(* Properties                                                              *)
(***************************************************************************)
Severity(status) ==
    CASE status = "good" -> 0
      [] status = "inspection_due_soon" -> 1
      [] status = "overdue" -> 2
      [] status = "maintenance_required" -> 3

\* the most severe of a non-empty set of labels
MostSevere(labels) == CHOOSE s \in labels : \A t \in labels : Severity(t) <= Severity(s)

DayRange == (-(ProbeDays + 2))..(ProbeDays + 2)

\* the least whole number of days that reaches from today to the due date
DaysUntilDue(due, today) ==
    CHOOSE n \in DayRange :
        /\ n * OneDay >= DayNumber(due.y, due.m, due.d) * OneDay - today
        /\ (n - 1) * OneDay < DayNumber(due.y, due.m, due.d) * OneDay - today

\* the statuses the classifier gives the assets of a list at an instant
StatusesAt(assets, today) ==
    { calculateRealTimeStatus(assets[i], today) : i \in 1..Len(assets) }

\* the spec's aggregate of a station at an instant
AggregateAt(station, today) ==
    IF Len(station.assets) = 0 THEN "maintenance_required"
    ELSE MostSevere(StatusesAt(station.assets, today))

\* the spec's aggregate of the statuses stored on a station's assets
AggregateStored(station) ==
    IF Len(station.assets) = 0 THEN "maintenance_required"
    ELSE MostSevere({ station.assets[i].status : i \in 1..Len(station.assets) })

AssetPositions == { <<i, j>> \in (1..Len(stations)) \X (1..MaxAssets + 1) :
                      j <= Len(stations[i].assets) }

\* C1: an asset with a valid due date is good iff daysUntilDue > 15, due soon
\* iff 0 < daysUntilDue <= 15, overdue iff -30 <= daysUntilDue <= 0 and
\* maintenance_required iff daysUntilDue < -30
C1_Bands ==
    (cls.status # "pending" /\ cls.asset.nextDue.kind = "iso") =>
        LET n == DaysUntilDue(cls.asset.nextDue, cls.today)
        IN  /\ (cls.status = "good") <=> (n > 15)
            /\ (cls.status = "inspection_due_soon") <=> (0 < n /\ n <= 15)
            /\ (cls.status = "overdue") <=> (-30 <= n /\ n <= 0)
            /\ (cls.status = "maintenance_required") <=> (n < -30)
            /\ cls.status \in StatusLabels

C1_Witness ==
    /\ cls.status = "inspection_due_soon"
    /\ cls.asset.nextDue.kind = "iso"
    /\ DaysUntilDue(cls.asset.nextDue, cls.today) = 15

\* C2: an asset whose nextDue is null, empty, absent or unparseable is
\* maintenance_required at every instant, whatever its other fields
C2_NoDueDate ==
    (cls.status # "pending"
     /\ cls.asset.nextDue.kind \in {"null", "undefined", "empty", "garbage"}) =>
        cls.status = "maintenance_required"

C2_Witness ==
    /\ cls.asset.nextDue.kind = "garbage"
    /\ cls.asset.status = "good"
    /\ cls.status = "maintenance_required"

\* C3: after data load each station's stored status is the most severe of
\* the statuses stored on its own assets
C3_StationMatchesStoredAssets ==
    pc \in {"loaded", "running"} =>
        \A i \in 1..Len(stations) : stations[i].status = AggregateStored(stations[i])

\* C4: on a station with assets getStationStatus returns the most severe of
\* its assets' statuses: at least as severe as each and equal to one of them
C4_MostSevere ==
    (agg.result # "pending" /\ agg.station.hasAssets /\ Len(agg.station.assets) > 0) =>
        /\ \A s \in StatusesAt(agg.station.assets, agg.today) :
              Severity(agg.result) >= Severity(s)
        /\ agg.result \in StatusesAt(agg.station.assets, agg.today)
        /\ (StatusesAt(agg.station.assets, agg.today) = StatusLabels
              => agg.result = "maintenance_required")

C4_Witness ==
    /\ agg.result = "maintenance_required"
    /\ Len(agg.station.assets) = 4
    /\ \A i \in 1..4 : agg.station.assets[i].nextDue.kind = "iso"
    /\ StatusesAt(agg.station.assets, agg.today) = StatusLabels

\* C5: the status computed for a station is the one getStationStatus gives
\* every permutation of its asset list at the same instant
C5_OrderIndependent ==
    agg.result # "pending" => getStationStatus(agg.station, agg.today) = agg.result

C5_Witness ==
    /\ agg.result # "pending"
    /\ agg.permuted
    /\ Len(agg.station.assets) >= 3
    /\ Cardinality(StatusesAt(agg.station.assets, agg.today)) >= 3

\* C6: a station with an empty or a missing asset list is maintenance_required
C6_EmptyStation ==
    (agg.result # "pending" /\ (~agg.station.hasAssets \/ Len(agg.station.assets) = 0)) =>
        agg.result = "maintenance_required"

C6_Witness ==
    /\ ~agg.station.hasAssets
    /\ agg.result = "maintenance_required"

\* C7: a refresh pass that follows another with the clock unchanged counts no
\* change, changes no stored status and notifies nobody
C7_Idempotent ==
    [][(lastOp \in PassOps /\ lastOp' \in PassOps /\ now' = now) =>
          (lastPass'.changes = 0 /\ ~lastPass'.notified /\ stations' = stations)]_vars

\* the hourly pass right after the midnight pass of the same instant, which
\* had moved an asset from good to inspection_due_soon
C7_Witness ==
    /\ lastOp = "hourly"
    /\ daily.armed /\ daily.due = now + OneDay
    /\ lastPass = [at |-> now, changes |-> 0, notified |-> FALSE, threw |-> FALSE]
    /\ \E p \in AssetPositions :
          /\ stations[p[1]].assets[p[2]].nextDue = IsoDue(2024, 3, 17)
          /\ stations[p[1]].assets[p[2]].status = "inspection_due_soon"
          /\ now = BoundaryInstant

\* C8: after a pass every asset has its status of now and every station the
\* aggregate of now, and the pass counted the assets plus the stations whose
\* stored status differed
C8_PassResult ==
    [][lastOp' \in PassOps =>
          /\ \A i \in 1..Len(stations') :
                /\ stations'[i].status = AggregateAt(stations'[i], now')
                /\ \A j \in 1..Len(stations'[i].assets) :
                      stations'[i].assets[j].status =
                          calculateRealTimeStatus(stations'[i].assets[j], now')
          /\ lastPass'.at = now'
          /\ lastPass'.changes =
                Cardinality({ p \in AssetPositions :
                                stations[p[1]].assets[p[2]].status #
                                    calculateRealTimeStatus(stations[p[1]].assets[p[2]], now) })
                + Cardinality({ i \in 1..Len(stations) :
                                  stations[i].status # AggregateAt(stations[i], now) })]_vars

C8_Witness ==
    /\ lastOp = "hourly"
    /\ lastPass.at = now
    /\ lastPass.changes >= 3

StaleAsset(asset) == asset.status # calculateRealTimeStatus(asset, now)

SomeAssetStale ==
    \E p \in AssetPositions : StaleAsset(stations[p[1]].assets[p[2]])

\* C9: once the scheduler runs, every stored asset status is the asset's
\* classification at some instant of the last hour
C9_NeverStalerThanAnHour ==
    pc = "running" =>
        \A p \in AssetPositions :
            \E t \in (now - OneHour)..now :
                stations[p[1]].assets[p[2]].status =
                    calculateRealTimeStatus(stations[p[1]].assets[p[2]], t)

\* the clock has crossed a band and the hourly timer is due
C9_Witness ==
    /\ pc = "running"
    /\ SomeAssetStale
    /\ Due(hourly)

\* C10: after teardown no refresh pass runs
C10_NoPassAfterTeardown ==
    tornDown => lastOp \notin PassOps

TimerOps == {"hourly", "midnight", "daily"}

\* the first local midnight after an instant
NextLocalMidnight(t) ==
    CHOOSE m \in (t + 1)..(t + OneDay) : (m + tz) % OneDay = 0

C12_HourlyForever ==
    /\ [](pc = "running" => (hourly.armed /\ hourly.due <= now + OneHour))
    /\ ((pc = "running" /\ now < Horizon) ~> (lastOp = "hourly"))

\* the hourly pass of the last hour of the run
C12_Witness ==
    /\ lastOp = "hourly"
    /\ now = Horizon
    /\ lastPass.at = Horizon
    /\ hourly.due = Horizon + OneHour

FullyRefreshed(sts, today) ==
    \A i \in 1..Len(sts) :
        /\ sts[i].status = getStationStatus(sts[i], today)
        /\ \A j \in 1..Len(sts[i].assets) :
              sts[i].assets[j].status = calculateRealTimeStatus(sts[i].assets[j], today)

\* C13: starting the scheduler runs a pass at once, in the same handler that
\* then arms the hourly and the midnight timer, both for later instants; no
\* timer is armed and no pass has run before, and a timer-driven pass runs
\* only in a started session
C13_ImmediatePass ==
    [][/\ (lastOp' = "init" =>
              /\ ~hourly.armed /\ ~midnight.armed /\ ~daily.armed
              /\ lastPass = NoPass
              /\ lastPass'.at = now'
              /\ FullyRefreshed(stations', now')
              /\ hourly'.armed /\ hourly'.due = now' + OneHour
              /\ midnight'.armed /\ midnight'.due > now')
       /\ (lastOp' \in TimerOps => (pc = "running" /\ lastPass.at > 0))]_vars

C13_Witness ==
    /\ lastOp = "init"
    /\ lastPass.at = now
    /\ hourly.armed /\ midnight.armed
    /\ Len(stations) = 2
    /\ FullyRefreshed(stations, now)

\* C14: the consumers of a pass that notifies see a data set in which every
\* asset and every station has its status of now, and the count they are
\* called on is the count of the whole pass
C14_ConsumersSeeFullPass ==
    [][(lastOp' \in PassOps /\ lastPass'.notified) =>
          /\ FullyRefreshed(refreshStations(stations, 1, 0, now).stations, now)
          /\ lastPass'.changes = refreshStations(stations, 1, 0, now).changes
          /\ stations' = refreshStations(stations, 1, 0, now).stations]_vars

\* a notifying pass over two stations whose second station changed
C14_Witness ==
    /\ lastOp \in TimerOps
    /\ lastPass.notified
    /\ Len(stations) = 2
    /\ Len(stations[2].assets) > 0
    /\ stations[2].status = "inspection_due_soon"
    /\ now = BoundaryInstant

\* C15: a pass calls the downstream consumers iff it counted a change
C15_NotifyIffChanged ==
    lastOp \in PassOps => (lastPass.notified <=> lastPass.changes > 0)

C15_Witness ==
    /\ lastOp = "midnight"
    /\ lastPass.notified
    /\ lastPass.changes = 2
    /\ lastPass.at = now

\* C16: no refresh pass throws: every station of a loaded session has an
\* asset list, whatever the due dates of its assets, and init() never ends in
\* its catch block
C16_PassNeverThrows ==
    /\ lastOp \in PassOps => ~lastPass.threw
    /\ \A i \in 1..Len(stations) : stations[i].hasAssets
    /\ pc # "failed"

\* a timer pass over an asset without a due date and one with a malformed one
C16_Witness ==
    /\ lastOp \in TimerOps
    /\ ~lastPass.threw
    /\ \E p \in AssetPositions : stations[p[1]].assets[p[2]].nextDue.kind = "garbage"
    /\ \E p \in AssetPositions : stations[p[1]].assets[p[2]].nextDue.kind = "null"

\* C17: loadData reads the primary source first and the fallback only when
\* the primary failed; it never raises, and where both fail the session has
\* no stations and no buildings
C17_LoadFallback ==
    pc # "constructed" =>
        /\ ~load.raised /\ pc # "failed"
        /\ (load.fallback # "unread") <=> (load.primary # "ok")
        /\ (load.source = "json") <=> (load.primary = "ok")
        /\ (load.source = "csv") <=> (load.primary # "ok" /\ load.fallback = "ok")
        /\ (load.source = "empty") <=> (load.primary # "ok" /\ load.fallback = "failed")
        /\ (load.source = "empty") => (stations = <<>> /\ buildings = <<>>)

\* a structured file that cannot be processed and no fallback file
C17_Witness ==
    /\ lastOp = "load"
    /\ load.primary = "malformed"
    /\ load.fallback = "failed"
    /\ load.source = "empty"
    /\ stations = <<>> /\ buildings = <<>>

\* the due date and the status of every asset in an exported file
ExportedAssets(e) ==
    IF e.kind = "csv"
    THEN { [nextDue |-> e.file[k].nextDue, status |-> e.file[k].status] : k \in 1..Len(e.file) }
    ELSE UNION { { [nextDue |-> e.file.stations[i].assets[j].nextDue,
                    status |-> e.file.stations[i].assets[j].status]
                   : j \in 1..Len(e.file.stations[i].assets) }
                 : i \in 1..Len(e.file.stations) }

\* C18: the status an export writes for an asset is the asset's status of
\* the instant of the export
C18_ExportLiveStatus ==
    exp.kind # "none" =>
        \A a \in ExportedAssets(exp) : a.status = calculateRealTimeStatus(a, exp.at)

\* the identity fields of the assets of a data set
AssetIdentities(sts) ==
    UNION { { [assetId |-> sts[i].assets[j].assetId,
               nextDue |-> sts[i].assets[j].nextDue,
               originalStatus |-> sts[i].assets[j].originalStatus]
              : j \in 1..Len(sts[i].assets) }
            : i \in 1..Len(sts) }

\* C19: a session that loads an exported file has every asset with the
\* assetId, the nextDue and the originalStatus it had in the exporting session
C19_RoundTrip ==
    exp.done => AssetIdentities(exp.reloaded) = AssetIdentities(stations)

\* C20: the status calculateRealTimeStatus returns is the one it returns at
\* the same instant for every asset with the same nextDue, whatever status
\* and originalStatus they store, and the call leaves the asset as it was
C20_DependsOnDueAndNow ==
    [][(cls.status = "pending" /\ cls'.status # "pending") =>
          /\ cls'.asset = cls.asset
          /\ cls'.today = cls.today
          /\ \A a \in ProbeAssets :
                a.nextDue = cls.asset.nextDue =>
                    calculateRealTimeStatus(a, cls.today) = cls'.status]_vars

\* an asset stored as overdue, ingested as expired, that classifies as good
C20_Witness ==
    /\ cls.status = "good"
    /\ cls.asset.status = "overdue"
    /\ cls.asset.originalStatus = "expired"

Parsed == fn.op = "parseDate" /\ fn.done

\* C21: parseDate of a string in one of the three formats is the ISO date
\* with the year, the month and the day the string names
C21_ParseKnownFormats ==
    (Parsed /\ fn.arg.kind \in {"mdy", "iso", "dmy"}) =>
        fn.result = IsoDue(fn.arg.y, fn.arg.m, fn.arg.d)

\* C22: parseDate of no string or of the empty string is null, and a string
\* in none of the three formats comes back as it is
C22_ParseAbsentOrUnknown ==
    /\ (Parsed /\ fn.arg.kind \in {"null", "undefined", "empty"}) => fn.result = NoDue("null")
    /\ (Parsed /\ fn.arg.kind = "garbage") => fn.result = fn.arg

C22_Witness ==
    /\ Parsed
    /\ fn.arg.kind = "garbage"
    /\ fn.result.kind = "garbage"

DueInstant(due) == DayNumber(due.y, due.m, due.d) * OneDay

\* C23: daysUntilDue is the least whole number of days that covers the time
\* left: at least 1 for a due date after now, which is then not overdue, and
\* at most 0 for a due date at or before now
C23_CeilDays ==
    (cls.status # "pending" /\ cls.asset.nextDue.kind = "iso") =>
        LET n == daysUntilDueOf(cls.asset.nextDue, cls.today)
            left == DueInstant(cls.asset.nextDue) - cls.today
        IN  /\ ~n.nan
            /\ n.v * OneDay >= left /\ (n.v - 1) * OneDay < left
            /\ left > 0 => (n.v >= 1 /\ cls.status \in {"good", "inspection_due_soon"})
            /\ left <= 0 => (n.v <= 0 /\ cls.status \in {"overdue", "maintenance_required"})

\* an asset due in two hours
C23_Witness ==
    /\ cls.status = "inspection_due_soon"
    /\ cls.asset.nextDue.kind = "iso"
    /\ DueInstant(cls.asset.nextDue) - cls.today = 2 * OneHour
    /\ daysUntilDueOf(cls.asset.nextDue, cls.today) = Num(1)

\* what a refresh pass has no business with: the stations, their asset lists
\* and the identity fields of the assets
Frame(sts) ==
    [i \in 1..Len(sts) |->
        [stationId |-> sts[i].stationId, building |-> sts[i].building,
         buildingName |-> sts[i].buildingName,
         assets |-> [j \in 1..Len(sts[i].assets) |->
                        [assetId |-> sts[i].assets[j].assetId,
                         nextDue |-> sts[i].assets[j].nextDue,
                         originalStatus |-> sts[i].assets[j].originalStatus]]]]

\* the status values the source of the session supplies with a due date
SuppliedStatuses(due, source) ==
    IF source = "json"
    THEN { c.status : c \in { r \in RawAssetChoices : r.nextDue = due } }
    ELSE { (IF c.status = "" THEN "unknown" ELSE c.status)
           : c \in { r \in CsvRowChoices : parseDate(r.nextDue, tz) = due } }

OriginalKept(sts, source) ==
    \A i \in 1..Len(sts) : \A j \in 1..Len(sts[i].assets) :
        sts[i].assets[j].originalStatus
            \in SuppliedStatuses(sts[i].assets[j].nextDue, source)

\* C24: once the data is loaded no step changes the stations, their asset
\* lists, or an asset's assetId, nextDue or originalStatus, and originalStatus
\* is the status the data source supplied
C24_PassFrame ==
    [][/\ (pc # "constructed" => (Frame(stations') = Frame(stations) /\ buildings' = buildings))
       /\ (pc' # "constructed" => OriginalKept(stations', load'.source))]_vars

\* after the daily pass: an asset ingested as good that two passes have changed
C24_Witness ==
    /\ lastOp = "daily"
    /\ \E p \in AssetPositions :
          /\ stations[p[1]].assets[p[2]].nextDue = IsoDue(2024, 1, 31)
          /\ stations[p[1]].assets[p[2]].originalStatus = "overdue"
          /\ stations[p[1]].assets[p[2]].status = "maintenance_required"
    /\ \E p \in AssetPositions :
          /\ stations[p[1]].assets[p[2]].originalStatus = "good"
          /\ stations[p[1]].assets[p[2]].status = "inspection_due_soon"

\* the rows of a file that carry a stationId
Carrying(rows) == SelectSeq(rows, LAMBDA r : r.stationId # NoStationId)

\* C25: the tabular ingestion produces exactly one station per distinct
\* stationId, every row carrying a stationId becomes exactly one asset of the
\* station with that id, in row order, and a missing assetType or
\* inspectionStickerID is replaced by 'extinguisher' and the sentinel
C25_GroupsRows ==
    (fn.op = "convertCSVToJSON" /\ fn.done) =>
        LET rows == Carrying(fn.arg)
            out  == fn.result.stations
            ids  == { rows[i].stationId : i \in 1..Len(rows) }
            rowsOf(id) == SelectSeq(rows, LAMBDA r : r.stationId = id)
        IN  /\ Len(out) = Cardinality(ids)
            /\ { out[i].stationId : i \in 1..Len(out) } = ids
            /\ \A i \in 1..Len(out) :
                  LET mine == rowsOf(out[i].stationId)
                  IN  /\ Len(out[i].assets) = Len(mine)
                      /\ \A j \in 1..Len(mine) :
                            /\ out[i].assets[j].assetId = mine[j].assetId
                            /\ out[i].assets[j].assetType =
                                  (IF mine[j].assetType = "" THEN "extinguisher"
                                   ELSE mine[j].assetType)
                            /\ out[i].assets[j].inspectionStickerID =
                                  (IF mine[j].inspectionStickerID = "" THEN "STK-NOT-ASSIGNED"
                                   ELSE mine[j].inspectionStickerID)

\* the lookup as the specification states it
IsoLookup(type) ==
    LET t == toUpperCase(type)
    IN  IF startsWith(t, <<"C", "O", "2">>) THEN 5
        ELSE IF t = <<"P", "O", "W", "D", "E", "R">> THEN 2
        ELSE 1

\* C26: an extinguisher whose row supplies no isoCategory gets the category
\* of its type: 5 for a type with prefix CO2, 2 for POWDER, 1 for anything else
C26_IsoLookup ==
    (fn.op = "convertCSVToJSON" /\ fn.done) =>
        \A i \in 1..Len(fn.result.stations) :
            \A j \in 1..Len(fn.result.stations[i].assets) :
                LET asset == fn.result.stations[i].assets[j]
                    row == CHOOSE r \in { fn.arg[k] : k \in 1..Len(fn.arg) } :
                              r.assetId = asset.assetId
                IN  (row.isoCategory = 0 /\ asset.assetType = "extinguisher")
                        => asset.isoCategory = IsoLookup(asset.type)

\* C27: as the clock advances the classification of an asset with a valid due
\* date never becomes less severe, and no step lowers the severity of a
\* stored asset status or station status
C27_SeverityMonotone ==
    [][pc # "constructed" =>
        /\ Len(stations') = Len(stations)
        /\ \A i \in 1..Len(stations) :
              /\ Severity(stations'[i].status) >= Severity(stations[i].status)
              /\ Len(stations'[i].assets) = Len(stations[i].assets)
              /\ \A j \in 1..Len(stations[i].assets) :
                    LET asset == stations[i].assets[j]
                    IN  /\ Severity(stations'[i].assets[j].status) >= Severity(asset.status)
                        /\ asset.nextDue.kind = "iso" =>
                              Severity(calculateRealTimeStatus(asset, now'))
                                  >= Severity(calculateRealTimeStatus(asset, now))]_vars

\* a timer-driven pass after the boundary has raised stored statuses: one
\* station went from good to inspection_due_soon, another asset to overdue
C27_Witness ==
    /\ lastOp \in TimerOps
    /\ lastPass.changes > 0
    /\ now >= BoundaryInstant
    /\ \E i \in 1..Len(stations) :
          /\ stations[i].status = "inspection_due_soon"
          /\ \A j \in 1..Len(stations[i].assets) :
                stations[i].assets[j].originalStatus = "good"
    /\ \E p \in AssetPositions :
          /\ stations[p[1]].assets[p[2]].nextDue = IsoDue(2024, 3, 2)
          /\ stations[p[1]].assets[p[2]].status = "overdue"

ReadsPassOps == {"init", "hourly", "midnight"}

IngestedOnly == {"expired", "unknown", ""}

\* C29: after a successful load the stored status of every asset and every
\* station is one of the four labels; what the source supplied as status is
\* found in originalStatus only
C29_StoredLabels ==
    pc \in {"loaded", "running"} =>
        \A i \in 1..Len(stations) :
            /\ stations[i].status \in StatusLabels
            /\ \A j \in 1..Len(stations[i].assets) :
                  /\ stations[i].assets[j].status \in StatusLabels
                  /\ stations[i].assets[j].status \notin IngestedOnly

\* a running session whose tabular source supplied no status for an asset
\* and 'expired' for another
C29_Witness ==
    /\ pc = "running"
    /\ lastOp \in TimerOps
    /\ \E p \in AssetPositions : stations[p[1]].assets[p[2]].originalStatus = "unknown"
    /\ \E p \in AssetPositions : stations[p[1]].assets[p[2]].originalStatus = "expired"

AllAssetIds == { stations[p[1]].assets[p[2]].assetId : p \in AssetPositions }

FromPrimary ==
    /\ buildings = JsonBuildings
    /\ \A a \in AllAssetIds : a < 100
    /\ \A i \in 1..Len(stations) :
          stations[i].buildingName = findBuilding(JsonBuildings, stations[i].building)

FromFallback ==
    /\ \A b \in 1..Len(buildings) : buildings[b].name = <<"Building", buildings[b].id>>
    /\ \A a \in AllAssetIds : a >= 100
    /\ { buildings[b].id : b \in 1..Len(buildings) }
          = { stations[i].building : i \in 1..Len(stations) }
    /\ \A i \in 1..Len(stations) :
          stations[i].buildingName = <<"Building", stations[i].building>>

\* C30: when loadData is through, buildings and stations come from the same
\* source or are both empty, also when the primary source was read and its
\* processing failed after the buildings had been assigned
C30_NoMixedDataSet ==
    pc # "constructed" =>
        \/ load.source = "json" /\ load.primary = "ok" /\ FromPrimary
        \/ load.source = "csv" /\ load.fallback = "ok" /\ FromFallback
        \/ load.source = "empty" /\ buildings = <<>> /\ stations = <<>>

\* the primary source had a station record without an asset list and the
\* fallback could not be read
C30_Witness ==
    /\ load.primary = "malformed"
    /\ load.fallback = "failed"
    /\ load.source = "empty"
    /\ buildings = <<>>
    /\ stations = <<>>
    /\ pc = "running"

====
